---- MODULE Spec2Model ----
(***************************************************************************)
(* A model of pon.cpp: the tokenizer (gettok), the recursive-descent /     *)
(* precedence-climbing parser, the lowering pass (Codegen) onto the LLVM   *)
(* module, and the driver loop (MainLoop and its handlers).                *)
(*                                                                         *)
(* Characters are one-character strings, EOF is the string "EOF".  The     *)
(* tokens of enum Token are strings of their enumerator names; every other *)
(* token is the character itself, as in the source.                        *)
(***************************************************************************)
EXTENDS Integers, Sequences, FiniteSets, TLC

VARIABLES
  lex,          \* the tokenizer's and parser's globals (see Lex0) and stdin
  TheModule,    \* the functions of the LLVM module
  NamedValues,  \* parameter name -> argument handle
  pc,           \* where main is: "main", "loop", "done" (or "lex" in SpecLex)
  stderr,       \* the diagnostics the last handler printed
  log,          \* history: what each handler dispatched by MainLoop did
  failEnd,      \* history: last token index of any statement that failed to parse
  toks,         \* history: the tokens of stdin, in order, with where each starts
  base,         \* SpecLex only: the stream before the comment was inserted
  out           \* SpecLex only: the tokens gettok has returned so far

vars == <<lex, TheModule, NamedValues, pc, stderr, log, failEnd, toks, base, out>>

----------------------------------------------------------------------------
(* Characters (<cctype>) *)

EOF == "EOF"

Alpha == {"a", "b", "c", "d", "e", "f", "g", "n", "r", "t", "x"}
Digit == {"1", "2", "3"}
Space == {" ", "\n", "\r"}

isspace(c) == c \in Space
isalpha(c) == c \in Alpha
isdigit(c) == c \in Digit
isalnum(c) == isalpha(c) \/ isdigit(c)

----------------------------------------------------------------------------
(* enum Token *)

tok_eof        == "tok_eof"
tok_def        == "tok_def"
tok_extern     == "tok_extern"
tok_identifier == "tok_identifier"
tok_number     == "tok_number"

EnumTokens == {tok_eof, tok_def, tok_extern, tok_identifier, tok_number}

----------------------------------------------------------------------------
(* The tokenizer *)

\* The globals before main runs: LastChar = ' ', nothing read.  ntok counts
\* the calls of getNextToken (so CurTok is token number ntok of the input),
\* tokStart is where the current token starts in stdin, eofOk records that
\* no call of gettok after one that returned tok_eof returned anything else.
Lex0(stream) ==
  [stdin |-> stream, rpos |-> 0, LastChar |-> " ",
   IdentifierStr |-> <<>>, NumVal |-> <<>>, CurTok |-> "none",
   ntok |-> 0, tokStart |-> 0, eofOk |-> TRUE, err |-> <<>>]

\* LastChar = getchar()
getchar(g) ==
  IF g.rpos < Len(g.stdin)
    THEN [g EXCEPT !.LastChar = g.stdin[g.rpos + 1], !.rpos = g.rpos + 1]
    ELSE [g EXCEPT !.LastChar = EOF]

\* strtod: the longest prefix of NumStr that is a decimal number, that is
\* NumStr up to its second '.', as the pair <<integer digits, fraction
\* digits>>.  The digits of the model do not include 0, so different pairs
\* are different values.
RECURSIVE TakeDigits(_)
TakeDigits(s) ==
  IF s = <<>> \/ ~isdigit(Head(s)) THEN <<>>
  ELSE <<Head(s)>> \o TakeDigits(Tail(s))

strtod(NumStr) ==
  LET ip   == TakeDigits(NumStr)
      rest == SubSeq(NumStr, Len(ip) + 1, Len(NumStr))
      fp   == IF rest # <<>> /\ Head(rest) = "." THEN TakeDigits(Tail(rest))
              ELSE <<>>
  IN <<ip, fp>>

RECURSIVE SkipSpace(_)
SkipSpace(g) ==
  IF isspace(g.LastChar) THEN SkipSpace(getchar(g)) ELSE g

\* Let(v, Op) names v inside Op: Let(e, LAMBDA x : body) is LET x == e IN body,
\* with e computed once.
Let(v, Op(_)) == CHOOSE r \in {Op(x) : x \in {v}} : TRUE

RECURSIVE ReadIdentifier(_)
ReadIdentifier(g) ==
  Let(getchar(g), LAMBDA g1 :
    IF isalnum(g1.LastChar)
      THEN ReadIdentifier([g1 EXCEPT !.IdentifierStr = Append(@, g1.LastChar)])
      ELSE g1)

\* do { NumStr += LastChar; LastChar = getchar(); } while (digit or '.')
RECURSIVE ReadNumber(_, _)
ReadNumber(g, NumStr) ==
  Let(getchar(g), LAMBDA g1 :
    IF isdigit(g1.LastChar) \/ g1.LastChar = "."
      THEN ReadNumber(g1, Append(NumStr, g.LastChar))
      ELSE [g1 EXCEPT !.NumVal = strtod(Append(NumStr, g.LastChar))])

\* do LastChar = getchar(); while (LastChar != EOF && != '\n' && != '\r')
\* A tokenizer that drops the '#' alone and reads on behind it.
DropHash(g) == getchar(g)

RECURSIVE SkipComment(_)
SkipComment(g) ==
  Let(getchar(g), LAMBDA g1 :
    IF g1.LastChar # EOF /\ g1.LastChar # "\n" /\ g1.LastChar # "\r"
      THEN SkipComment(g1)
      ELSE g1)

Keyword(IdStr) ==
  IF IdStr = <<"d", "e", "f">> THEN tok_def
  ELSE IF IdStr = <<"e", "x", "t", "e", "r", "n">> THEN tok_extern
  ELSE tok_identifier

\* gettok: the token returned and the globals after the call.  s is the
\* globals once the white space is skipped, c once a comment is.
RECURSIVE gettok(_)
AfterComment(c) ==
  IF c.LastChar # EOF THEN gettok(c)
  ELSE [tok |-> tok_eof, g |-> [c EXCEPT !.tokStart = Len(c.stdin) + 1]]

AfterSpace(s) ==
  IF isalpha(s.LastChar) THEN
    Let(ReadIdentifier([s EXCEPT !.IdentifierStr = <<s.LastChar>>]), LAMBDA g1 :
      [tok |-> Keyword(g1.IdentifierStr), g |-> g1])
  ELSE IF isdigit(s.LastChar) \/ s.LastChar = "." THEN
    [tok |-> tok_number, g |-> ReadNumber(s, <<>>)]
  ELSE IF s.LastChar = "#" THEN AfterComment(SkipComment(s))
  ELSE IF s.LastChar = EOF
    THEN [tok |-> tok_eof, g |-> [s EXCEPT !.tokStart = Len(s.stdin) + 1]]
  ELSE [tok |-> s.LastChar, g |-> getchar(s)]

gettok(g) ==
  Let(SkipSpace(g), LAMBDA g0 : AfterSpace([g0 EXCEPT !.tokStart = g0.rpos]))

\* return CurTok = gettok()
getNextToken(g) ==
  Let(gettok(g), LAMBDA r :
    [r.g EXCEPT !.CurTok = r.tok,
                !.ntok = @ + 1,
                !.eofOk = @ /\ (g.CurTok = tok_eof => r.tok = tok_eof)])

----------------------------------------------------------------------------
(* The AST.  A null pointer is NULL. *)

NULL == [k |-> "NULL"]
IsNull(x) == x.k = "NULL"

NumberExprAST(val)          == [k |-> "Number", Val |-> val]
VariableExprAST(name)       == [k |-> "Variable", Name |-> name]
BinaryExprAST(op, lhs, rhs) == [k |-> "Binary", Op |-> op, LHS |-> lhs, RHS |-> rhs]
CallExprAST(callee, args)   == [k |-> "Call", Callee |-> callee, Args |-> args]
PrototypeAST(name, args)    == [k |-> "Prototype", Name |-> name, Args |-> args]
FunctionAST(proto, body)    == [k |-> "Function", Proto |-> proto, Body |-> body]

----------------------------------------------------------------------------
(* The parser.  Every parse function takes the globals and returns the     *)
(* node (or NULL) with the globals after it.                               *)

\* main: BinopPrecedence['<'] = 10, ['+'] = 20, ['-'] = 20, ['*'] = 40;
\* std::map's operator[] gives 0 for any other key.
\* A table that gives the four operators one precedence.
FlatPrecedence(c) == IF c \in {"<", "+", "-", "*"} THEN 20 ELSE 0

BinopPrecedence(c) ==
  CASE c = "<" -> 10
    [] c = "+" -> 20
    [] c = "-" -> 20
    [] c = "*" -> 40
    [] OTHER   -> 0

isascii(tok) == tok \notin EnumTokens

GetTokPrecedence(g) ==
  IF ~isascii(g.CurTok) THEN -1
  ELSE LET TokPrec == BinopPrecedence(g.CurTok)
       IN IF TokPrec <= 0 THEN -1 ELSE TokPrec

\* Error, ErrorP, ErrorF, ErrorV: print Str on stderr, return 0
Error(g, Str) == [ast |-> NULL, g |-> [g EXCEPT !.err = Append(@, Str)]]

RECURSIVE ParseExpression(_), ParsePrimary(_), ParseBinOpRHS(_, _, _),
          ParseIdentifierExpr(_), ParseParenExpr(_), ParseArgs(_, _)

ParseNumberExpr(g) ==
  [ast |-> NumberExprAST(g.NumVal), g |-> getNextToken(g)]

\* the while (1) loop of ParseIdentifierExpr, entered with CurTok != ')'
ParseArgs(g, Args) ==
  Let(ParseExpression(g), LAMBDA r :
    IF IsNull(r.ast) THEN [ok |-> FALSE, args |-> <<>>, g |-> r.g]
    ELSE IF r.g.CurTok = ")"
      THEN [ok |-> TRUE, args |-> Append(Args, r.ast), g |-> r.g]
    ELSE IF r.g.CurTok # ","
      THEN [ok |-> FALSE, args |-> <<>>,
            g |-> Error(r.g, "Expected ')' or ',' in argument list").g]
    ELSE ParseArgs(getNextToken(r.g), Append(Args, r.ast)))

ParseIdentifierExpr(g) ==
  Let(getNextToken(g), LAMBDA g1 :
    IF g1.CurTok # "(" THEN [ast |-> VariableExprAST(g.IdentifierStr), g |-> g1]
    ELSE
      Let(getNextToken(g1), LAMBDA g2 :
        Let(IF g2.CurTok # ")" THEN ParseArgs(g2, <<>>)
            ELSE [ok |-> TRUE, args |-> <<>>, g |-> g2], LAMBDA a :
          IF ~a.ok THEN [ast |-> NULL, g |-> a.g]
          ELSE [ast |-> CallExprAST(g.IdentifierStr, a.args),
                g |-> getNextToken(a.g)])))

ParseParenExpr(g) ==
  Let(ParseExpression(getNextToken(g)), LAMBDA V :
    IF IsNull(V.ast) THEN V
    ELSE IF V.g.CurTok # ")" THEN Error(V.g, "expected ')'")
    ELSE [ast |-> V.ast, g |-> getNextToken(V.g)])

ParsePrimary(g) ==
  CASE g.CurTok = tok_identifier -> ParseIdentifierExpr(g)
    [] g.CurTok = tok_number     -> ParseNumberExpr(g)
    [] g.CurTok = "("            -> ParseParenExpr(g)
    [] OTHER -> Error(g, "unknown token when expecting an expression")

\* One turn of the while (1) loop of ParseBinOpRHS, then the next turns.
ParseBinOpRHS(ExprPrec, LHS, g) ==
  Let(GetTokPrecedence(g), LAMBDA TokPrec :
    IF TokPrec < ExprPrec THEN [ast |-> LHS, g |-> g]
    ELSE
      Let(ParsePrimary(getNextToken(g)), LAMBDA RHS :
        IF IsNull(RHS.ast) THEN RHS
        ELSE
          Let(IF TokPrec < GetTokPrecedence(RHS.g)
                THEN ParseBinOpRHS(TokPrec + 1, RHS.ast, RHS.g)
                ELSE RHS, LAMBDA R2 :
            IF IsNull(R2.ast) THEN R2
            ELSE ParseBinOpRHS(ExprPrec,
                               BinaryExprAST(g.CurTok, LHS, R2.ast), R2.g))))

ParseExpression(g) ==
  Let(ParsePrimary(g), LAMBDA LHS :
    IF IsNull(LHS.ast) THEN LHS
    ELSE ParseBinOpRHS(0, LHS.ast, LHS.g))

\* while (getNextToken() == tok_identifier) ArgNames.push_back(IdentifierStr)
RECURSIVE ReadArgNames(_, _)
ReadArgNames(g, ArgNames) ==
  Let(getNextToken(g), LAMBDA g1 :
    IF g1.CurTok = tok_identifier
      THEN ReadArgNames(g1, Append(ArgNames, g1.IdentifierStr))
      ELSE [names |-> ArgNames, g |-> g1])

ParsePrototype(g) ==
  IF g.CurTok # tok_identifier
    THEN Error(g, "Expected function name in prototype")
  ELSE
    Let(getNextToken(g), LAMBDA g1 :
      IF g1.CurTok # "(" THEN Error(g1, "Expected '(' in prototype")
      ELSE
        Let(ReadArgNames(g1, <<>>), LAMBDA a :
          IF a.g.CurTok # ")" THEN Error(a.g, "Expected ')' in prototype")
          ELSE [ast |-> PrototypeAST(g.IdentifierStr, a.names),
                g |-> getNextToken(a.g)]))

ParseDefinition(g) ==
  Let(ParsePrototype(getNextToken(g)), LAMBDA Proto :
    IF IsNull(Proto.ast) THEN Proto
    ELSE Let(ParseExpression(Proto.g), LAMBDA E :
           IF ~IsNull(E.ast)
             THEN [ast |-> FunctionAST(Proto.ast, E.ast), g |-> E.g]
             ELSE E))

ParseTopLevelExpr(g) ==
  Let(ParseExpression(g), LAMBDA E :
    IF ~IsNull(E.ast)
      THEN [ast |-> FunctionAST(PrototypeAST(<<>>, <<>>), E.ast), g |-> E.g]
      ELSE E)

ParseExtern(g) == ParsePrototype(getNextToken(g))

----------------------------------------------------------------------------
(* The LLVM module and the IRBuilder, as far as pon.cpp uses them.         *)
(*                                                                         *)
(* TheModule.fns maps the name of each named function (the module's symbol *)
(* table, what getFunction searches) to the function; TheModule.anon holds *)
(* the functions with the empty name, which are in no symbol table.  A     *)
(* function is [nargs, argNames, empty, bb]: empty is Function::empty (no  *)
(* basic block), bb the instructions of its entry block.  A Function* is a *)
(* handle [named, id]; a Value* is a constant, an argument or the result   *)
(* of an instruction of the block being built.                             *)

NoValues == [n \in {} |-> NULL]     \* an empty std::map / symbol table

\* new Module("Pon JIT", Context)
EmptyModule == [fns |-> NoValues, anon |-> <<>>]

IsNamed(M, Name) == Name # <<>> /\ Name \in DOMAIN M.fns

\* A module in which no name is ever found.
NoFunction(M, Name) == NULL

\* TheModule->getFunction(Name)
getFunction(M, Name) ==
  IF IsNamed(M, Name) THEN [k |-> "Function", named |-> TRUE, id |-> Name]
  ELSE NULL

Deref(M, F) == IF F.named THEN M.fns[F.id] ELSE M.anon[F.id]

PutFn(M, F, fn) ==
  IF F.named
    THEN [M EXCEPT !.fns = [n \in DOMAIN M.fns \cup {F.id} |->
                              IF n = F.id THEN fn ELSE M.fns[n]]]
    ELSE [M EXCEPT !.anon = [i \in 1..(IF F.id > Len(M.anon) THEN F.id ELSE Len(M.anon))
                               |-> IF i = F.id THEN fn ELSE M.anon[i]]]

\* A failed body that stays in the module.
KeepFunction(M, F) == M

\* F->eraseFromParent()
eraseFromParent(M, F) ==
  IF F.named
    THEN [M EXCEPT !.fns = [n \in DOMAIN M.fns \ {F.id} |-> M.fns[n]]]
    ELSE [M EXCEPT !.anon = [i \in 1..(Len(M.anon) - 1) |->
                               IF i < F.id THEN M.anon[i] ELSE M.anon[i + 1]]]

ConstantFP(v) == [k |-> "const", v |-> v]
IsConstant(V) == V.k = "const"

\* IRBuilder<>::Insert with the default ConstantFolder: an operation on
\* constants is folded to a constant and no instruction is inserted;
\* otherwise the instruction is appended to the block and is the value.
Create(b, op, L, R) ==
  IF IsConstant(L) /\ IsConstant(R)
    THEN [val |-> ConstantFP(<<op, L.v, R.v>>), b |-> b]
    ELSE [val |-> [k |-> "inst", n |-> Len(b.bb) + 1],
          b   |-> [b EXCEPT !.bb = Append(@, [op |-> op, a |-> L, b |-> R])]]

CreateUIToFP(b, V) ==
  IF IsConstant(V)
    THEN [val |-> ConstantFP(<<"uitofp", V.v>>), b |-> b]
    ELSE [val |-> [k |-> "inst", n |-> Len(b.bb) + 1],
          b   |-> [b EXCEPT !.bb = Append(@, [op |-> "uitofp", a |-> V])]]

CreateCall(b, CalleeF, ArgsV) ==
  [val |-> [k |-> "inst", n |-> Len(b.bb) + 1],
   b   |-> [b EXCEPT !.bb = Append(@, [op |-> "call", callee |-> CalleeF.id,
                                      args |-> ArgsV])]]

CreateRet(b, V) == [b EXCEPT !.bb = Append(@, [op |-> "ret", a |-> V])]

\* ErrorV
ErrorV(b, Str) == [val |-> NULL, b |-> [b EXCEPT !.err = Append(@, Str)]]

----------------------------------------------------------------------------
(* Lowering.  An expression's Codegen takes the builder b = [bb, err] (the *)
(* block being filled, the diagnostics printed) and returns the value (or  *)
(* NULL) and the builder after it.                                         *)

RECURSIVE Codegen(_, _, _, _), CodegenArgs(_, _, _, _, _, _)

NumberCodegen(e, b) == [val |-> ConstantFP(e.Val), b |-> b]

\* Value *V = NamedValues[Name]; a name not in the map gives a null entry
VariableCodegen(e, NV, b) ==
  IF e.Name \in DOMAIN NV THEN [val |-> NV[e.Name], b |-> b]
  ELSE ErrorV(b, "Unknown variable name")

BinaryOp(Op, L, R) ==
  IF IsNull(L.val) \/ IsNull(R.val) THEN [val |-> NULL, b |-> R.b]
  ELSE CASE Op = "+" -> Create(R.b, "fadd", L.val, R.val)
         [] Op = "-" -> Create(R.b, "fsub", L.val, R.val)
         [] Op = "*" -> Create(R.b, "fmul", L.val, R.val)
         [] Op = "<" ->
              Let(Create(R.b, "fcmp ult", L.val, R.val), LAMBDA c :
                CreateUIToFP(c.b, c.val))
         [] OTHER -> ErrorV(R.b, "invalid binary operator")

\* Value *L = LHS->Codegen(); Value *R = RHS->Codegen(); both, then the test
BinaryCodegen(e, M, NV, b) ==
  Let(Codegen(e.LHS, M, NV, b), LAMBDA L :
    Let(Codegen(e.RHS, M, NV, L.b), LAMBDA R : BinaryOp(e.Op, L, R)))

\* the for loop of CallExprAST::Codegen, from argument i on
CodegenArgs(Args, i, ArgsV, M, NV, b) ==
  IF i > Len(Args) THEN [ok |-> TRUE, vals |-> ArgsV, b |-> b]
  ELSE Let(Codegen(Args[i], M, NV, b), LAMBDA a :
         IF IsNull(a.val) THEN [ok |-> FALSE, vals |-> ArgsV, b |-> a.b]
         ELSE CodegenArgs(Args, i + 1, Append(ArgsV, a.val), M, NV, a.b))

CallCodegen(e, M, NV, b) ==
  Let(getFunction(M, e.Callee), LAMBDA CalleeF :
    IF IsNull(CalleeF) THEN ErrorV(b, "Unknown function referenced")
    ELSE IF Deref(M, CalleeF).nargs # Len(e.Args)
      THEN ErrorV(b, "Incorrect # arguments passed")
    ELSE Let(CodegenArgs(e.Args, 1, <<>>, M, NV, b), LAMBDA a :
           IF ~a.ok THEN [val |-> NULL, b |-> a.b]
           ELSE CreateCall(a.b, CalleeF, a.vals)))

Codegen(e, M, NV, b) ==
  CASE e.k = "Number"   -> NumberCodegen(e, b)
    [] e.k = "Variable" -> VariableCodegen(e, NV, b)
    [] e.k = "Binary"   -> BinaryCodegen(e, M, NV, b)
    [] e.k = "Call"     -> CallCodegen(e, M, NV, b)

\* The function Function::Create makes for prototype P, with no block yet.
\* A function that always counts as a declaration without a body.
NeverDefined(fn) == TRUE

\* F->empty()
empty(fn) == fn.empty

NewFunction(P) ==
  [nargs |-> Len(P.Args), argNames |-> P.Args, empty |-> TRUE, bb |-> <<>>]

\* for each Idx: AI->setName(Args[Idx]); NamedValues[Args[Idx]] = AI;
\* a name given twice ends bound to its last argument.
BindArgs(P, F, NV) ==
  LET N       == Len(P.Args)
      names   == {P.Args[i] : i \in 1..N}
      Last(n) == CHOOSE i \in 1..N :
                   P.Args[i] = n /\ \A j \in (i + 1)..N : P.Args[j] # n
  IN [n \in DOMAIN NV \cup names |->
        IF n \in names THEN [k |-> "arg", fn |-> F.id, idx |-> Last(n)]
        ELSE NV[n]]

\* PrototypeAST::Codegen: F (or NULL), the module, NamedValues and the
\* diagnostics after it.  Function::Create with a name the module already
\* holds gives the new function another name, so that getName() != Name and
\* the new function is erased again; the empty name never conflicts.
PrototypeCodegen(P, M, NV) ==
  LET F == IF P.Name = <<>>
             THEN [k |-> "Function", named |-> FALSE, id |-> Len(M.anon) + 1]
             ELSE [k |-> "Function", named |-> TRUE, id |-> P.Name]
  IN IF ~IsNamed(M, P.Name)
       THEN [F |-> F, M |-> PutFn(M, F, NewFunction(P)),
             NV |-> BindArgs(P, F, NV), err |-> <<>>]
     ELSE IF ~empty(Deref(M, F))
       THEN [F |-> NULL, M |-> M, NV |-> NV,
             err |-> <<"redefinition of function">>]
     ELSE IF Deref(M, F).nargs # Len(P.Args)
       THEN [F |-> NULL, M |-> M, NV |-> NV,
             err |-> <<"redefinition of function with different # args">>]
     ELSE [F |-> F, M |-> PutFn(M, F, [Deref(M, F) EXCEPT !.argNames = P.Args]),
           NV |-> BindArgs(P, F, NV), err |-> <<>>]

\* FunctionAST::Codegen after Proto->Codegen() returned TheFunction (P.F):
\* M1 is the module with the entry block created; mid records it (history).
FunctionBody(Fn, P, M1) ==
  Let(Codegen(Fn.Body, M1, P.NV, [bb |-> <<>>, err |-> <<>>]), LAMBDA RetVal :
    IF ~IsNull(RetVal.val)
      THEN [F |-> P.F,
            M |-> PutFn(M1, P.F, [Deref(M1, P.F) EXCEPT
                                    !.bb = CreateRet(RetVal.b, RetVal.val).bb]),
            NV |-> P.NV, err |-> RetVal.b.err, protoOk |-> TRUE, mid |-> M1]
      ELSE [F |-> NULL, M |-> eraseFromParent(M1, P.F),
            NV |-> P.NV, err |-> RetVal.b.err, protoOk |-> TRUE, mid |-> M1])

\* A symbol table that is carried over into the next function.
KeptValues(NV) == NV

\* NamedValues.clear()
ClearedValues(NV) == NoValues

\* FunctionAST::Codegen.  protoOk says that Proto->Codegen() returned a
\* function (history).  verifyFunction's result is not used.
FunctionCodegen(Fn, M, NV) ==
  Let(PrototypeCodegen(Fn.Proto, M, ClearedValues(NV)), LAMBDA P :
    IF IsNull(P.F)
      THEN [F |-> NULL, M |-> P.M, NV |-> P.NV, err |-> P.err,
            protoOk |-> FALSE, mid |-> P.M]
      ELSE FunctionBody(Fn, P,
             PutFn(P.M, P.F, [Deref(P.M, P.F) EXCEPT !.empty = FALSE,
                                                    !.bb = <<>>])))

----------------------------------------------------------------------------
(* The driver *)

\* Three other recoveries: none, two tokens, and every token up to the
\* next ';' (or the end of the input).
NoSkip(g) == g

SkipTwo(g) == getNextToken(getNextToken(g))

RECURSIVE SkipToSemi(_)
SkipToSemi(g) ==
  IF g.CurTok \in {";", tok_eof} THEN g ELSE SkipToSemi(getNextToken(g))

\* A handler's error recovery: else { getNextToken(); }
SkipToken(g) == getNextToken(g)

\* The tokens of a stream, as repeated gettok calls return them, up to and
\* without tok_eof: the token, where it starts and ends, and its
\* IdentifierStr or NumVal.
RECURSIVE TokensFrom(_)
TokensFrom(g) ==
  LET g1 == getNextToken(g)
  IN IF g1.CurTok = tok_eof THEN <<>>
     ELSE <<[tok |-> g1.CurTok, start |-> g1.tokStart,
             end |-> IF g1.LastChar = EOF THEN g1.rpos ELSE g1.rpos - 1,
             text |-> IF g1.CurTok = tok_number THEN g1.NumVal
                      ELSE IF g1.CurTok = tok_identifier THEN g1.IdentifierStr
                      ELSE <<>>]>> \o TokensFrom(g1)

Tokens(stream) == TokensFrom(Lex0(stream))

\* The index of the last token of the statement that token i is in: the
\* first ';' at or after i, or the last token of the input.
RECURSIVE StmtEnd(_)
StmtEnd(i) ==
  IF i >= Len(toks) THEN Len(toks)
  ELSE IF toks[i].tok = ";" THEN i
  ELSE StmtEnd(i + 1)

Max(a, b) == IF a >= b THEN a ELSE b

\* What a handler leaves behind.  p is the parse's result, c the lowering's
\* (used only when the parse succeeded).
Handled(kind, p, c, okMsg) ==
  LET parsed == ~IsNull(p.ast)
      start  == lex.ntok
  IN \E g \in {IF parsed THEN p.g ELSE SkipToken(p.g)} :
     /\ lex' = [g EXCEPT !.err = <<>>]
     /\ TheModule' = IF parsed THEN c.M ELSE TheModule
     /\ NamedValues' = IF parsed THEN c.NV ELSE NamedValues
     /\ stderr' = IF ~parsed THEN p.g.err
                  ELSE IF IsNull(c.F) THEN c.err
                  ELSE c.err \o <<okMsg>>
     /\ log' = Append(log,
          [kind |-> kind, start |-> start, parsed |-> parsed, ast |-> p.ast,
           perr |-> p.g.err, stopTok |-> p.g.ntok, endTok |-> g.ntok,
           inTail |-> start <= failEnd,
           pre |-> TheModule, preNV |-> NamedValues,
           mid |-> IF parsed THEN c.mid ELSE TheModule,
           protoOk |-> parsed /\ c.protoOk,
           lowered |-> parsed /\ ~IsNull(c.F),
           lerr |-> IF parsed THEN c.err ELSE <<>>])
     /\ failEnd' = IF parsed THEN failEnd ELSE Max(failEnd, StmtEnd(start))
     /\ UNCHANGED <<pc, toks, base, out>>

NoLowering == [F |-> NULL, M |-> TheModule, NV |-> NamedValues, err |-> <<>>,
               protoOk |-> FALSE, mid |-> TheModule]

\* main up to MainLoop(): getNextToken(); TheModule = new Module(...)
Main ==
  /\ pc = "main"
  /\ lex' = getNextToken(lex)
  /\ TheModule' = EmptyModule
  /\ pc' = "loop"
  /\ UNCHANGED <<NamedValues, stderr, log, failEnd, toks, base, out>>

\* case tok_eof: return;  then main dumps the module and returns
LoopEof ==
  /\ pc = "loop" /\ lex.CurTok = tok_eof
  /\ pc' = "done"
  /\ UNCHANGED <<lex, TheModule, NamedValues, stderr, log, failEnd, toks, base, out>>

\* case ';': getNextToken(); break;
LoopSemi ==
  /\ pc = "loop" /\ lex.CurTok = ";"
  /\ lex' = getNextToken(lex)
  /\ UNCHANGED <<TheModule, NamedValues, pc, stderr, log, failEnd, toks, base, out>>

HandleDefinition ==
  /\ pc = "loop" /\ lex.CurTok = tok_def
  /\ \E p \in {ParseDefinition(lex)} :
     \E c \in {IF IsNull(p.ast) THEN NoLowering
              ELSE FunctionCodegen(p.ast, TheModule, NamedValues)} :
       Handled("def", p, c, "Read function definition:")

HandleExtern ==
  /\ pc = "loop" /\ lex.CurTok = tok_extern
  /\ \E p \in {ParseExtern(lex)} :
     \E c \in {IF IsNull(p.ast) THEN NoLowering
              ELSE Let(PrototypeCodegen(p.ast, TheModule, NamedValues), LAMBDA P :
                     [F |-> P.F, M |-> P.M, NV |-> P.NV, err |-> P.err,
                      protoOk |-> ~IsNull(P.F), mid |-> P.M])} :
       Handled("extern", p, c, "Read extern: ")

HandleTopLevelExpression ==
  /\ pc = "loop" /\ lex.CurTok \notin {tok_eof, ";", tok_def, tok_extern}
  /\ \E p \in {ParseTopLevelExpr(lex)} :
     \E c \in {IF IsNull(p.ast) THEN NoLowering
              ELSE FunctionCodegen(p.ast, TheModule, NamedValues)} :
       Handled("expr", p, c, "Read top-level expression:")

MainLoop ==
  \/ LoopEof
  \/ LoopSemi
  \/ HandleDefinition
  \/ HandleExtern
  \/ HandleTopLevelExpression

Next == Main \/ MainLoop

----------------------------------------------------------------------------
(* The inputs.  An input is a sequence of token spellings, written to      *)
(* stdin one after the other, each followed by a space.                    *)

MaxJunk  == 3     \* tokens of an arbitrary (mostly malformed) prefix
MaxStmts == 3     \* statements of a program
MaxOps   == 3     \* operators of an expression

Spell(t) ==
  CASE t = "def"    -> <<"d", "e", "f">>
    [] t = "extern" -> <<"e", "x", "t", "e", "r", "n">>
    [] OTHER        -> <<t>>

RECURSIVE Render(_)
Render(ts) ==
  IF ts = <<>> THEN <<>> ELSE Spell(Head(ts)) \o <<" ">> \o Render(Tail(ts))

SeqsUpTo(S, n) == UNION {[1..k -> S] : k \in 0..n}

RECURSIVE Concat(_)
Concat(ss) == IF ss = <<>> THEN <<>> ELSE Head(ss) \o Concat(Tail(ss))

JunkAlphabet == {"(", ")", "1", "f", "+", "def", "extern", ";"}

Followers ==
  { <<>>,
    <<";", "f", "(", "1", ")", ";">>,
    <<";", "def", "f", "(", "a", ")", "a", ";">>,
    <<";", "extern", "f", "(", "a", ")", ";">>,
    <<";", "1", "+", "2", "*", "3", ";">> }

JunkInputs ==
  {j \o f : j \in SeqsUpTo(JunkAlphabet, MaxJunk), f \in Followers}

Statements ==
  { <<"extern", "f", "(", "a", ")", ";">>,
    <<"extern", "f", "(", "a", "b", ")", ";">>,
    <<"extern", "g", "(", "a", ")", ";">>,
    <<"def", "f", "(", "a", ")", "a", "*", "a", ";">>,
    <<"def", "f", "(", "a", ")", "c", ";">>,
    <<"def", "f", "(", "a", ")", "a", ";">>,
    <<"def", "g", "(", "b", ")", "a", ";">>,
    <<"def", "g", "(", "b", ")", "f", "(", "b", ")", ";">>,
    <<"f", "(", "1", ")", ";">>,
    <<"f", "(", "1", ",", "2", ")", ";">>,
    <<"f", "(", "g", "(", "1", ")", ",", "g", "(", "2", ")", ")", ";">> }

Programs == {Concat(p) : p \in SeqsUpTo(Statements, MaxStmts)}

Operators == {"<", "+", "-", "*"}

\* the k-th primary of an expression input is the number 1, 2, 3, 1, ...
Primary(k) == <<"1", "2", "3">>[((k - 1) % 3) + 1]

Chain(ops) ==
  [i \in 1..(2 * Len(ops) + 1) |->
     IF i % 2 = 1 THEN Primary((i + 1) \div 2) ELSE ops[i \div 2]] \o <<";">>

Expressions == {Chain(ops) : ops \in SeqsUpTo(Operators, MaxOps)}

Inputs ==
  {Render(ts) : ts \in JunkInputs} \cup {Render(ts) : ts \in Programs}
    \cup {Render(ts) : ts \in Expressions}

Init ==
  /\ lex \in {Lex0(i) : i \in Inputs}
  /\ TheModule = EmptyModule
  /\ NamedValues = NoValues
  /\ pc = "main"
  /\ stderr = <<>>
  /\ log = <<>>
  /\ failEnd = 0
  /\ toks = Tokens(lex.stdin)
  /\ base = <<>>
  /\ out = <<>>

Spec == Init /\ [][Next]_vars

----------------------------------------------------------------------------
(* The tokenizer alone: gettok called until it returns tok_eof, on a       *)
(* stream base.s into which the comment base.c was inserted after its      *)
(* first base.p characters.                                                *)

MaxChars == 3     \* characters of a stream before the comment is inserted

LexAlphabet == {"a", "1", "+", " ", "#", "\n"}

Comments ==
  { <<"#", "\n">>, <<"#", "a", "\n">>, <<"#", " ", "1", "\r">>, <<"#", "+">> }

Insert(s, p, c) == SubSeq(s, 1, p) \o c \o SubSeq(s, p + 1, Len(s))

\* the example of the specification: 1 + 2 # trailing comment\n + 3
ExampleBase ==
  [s |-> <<"1", " ", "+", " ", "2", " ", " ", "+", " ", "3">>, p |-> 6,
   c |-> <<"#", " ", "t", "r", "a", "i", "l", "i", "n", "g", " ",
           "c", "o", "m", "m", "e", "n", "t", "\n">>]

Bases ==
  UNION {{[s |-> s, p |-> p, c |-> c] : p \in 0..Len(s), c \in Comments}
           : s \in SeqsUpTo(LexAlphabet, MaxChars)} \cup {ExampleBase}

InitLex ==
  /\ base \in Bases
  /\ lex = Lex0(Insert(base.s, base.p, base.c))
  /\ TheModule = EmptyModule
  /\ NamedValues = NoValues
  /\ pc = "lex"
  /\ stderr = <<>>
  /\ log = <<>>
  /\ failEnd = 0
  /\ toks = <<>>
  /\ out = <<>>

TokenOf(g) ==
  [tok |-> g.CurTok,
   text |-> IF g.CurTok = tok_number THEN g.NumVal
            ELSE IF g.CurTok = tok_identifier THEN g.IdentifierStr
            ELSE <<>>]

\* one call of gettok (through getNextToken)
LexStep ==
  /\ pc = "lex"
  /\ lex' = getNextToken(lex)
  /\ out' = Append(out, TokenOf(lex'))
  /\ pc' = IF lex'.CurTok = tok_eof THEN "lexdone" ELSE "lex"
  /\ UNCHANGED <<TheModule, NamedValues, stderr, log, failEnd, toks, base>>

SpecLex == InitLex /\ [][LexStep]_vars

\* Every step of the driver is taken: main is one thread, which runs on as
\* long as it has a next step.
SpecLive == Init /\ [][Next]_vars /\ WF_vars(Next)

----------------------------------------------------------------------------
(* What the claims speak of *)

Entries == 1..Len(log)
LastEntry == log[Len(log)]

IsDef(e)    == e.kind = "def" /\ e.parsed
IsExtern(e) == e.kind = "extern" /\ e.parsed
IsFn(e)     == e.kind \in {"def", "expr"} /\ e.parsed

\* the prototype a handler lowered
ProtoOf(e) == IF e.kind = "extern" THEN e.ast ELSE e.ast.Proto

Params(P) == {P.Args[i] : i \in 1..Len(P.Args)}

\* name -> <<arity, has a body>> of the named functions of a module
Declared(M) == [n \in DOMAIN M.fns |-> <<M.fns[n].nargs, ~M.fns[n].empty>>]

\* the entry block of the function entry e defined, in any later state
Emitted(e) ==
  IF e.kind = "def" THEN TheModule.fns[e.ast.Proto.Name].bb
  ELSE TheModule.anon[Len(e.pre.anon) + 1].bb

N(d) == NumberExprAST(<<<<d>>, <<>>>>)
V(n) == VariableExprAST(<<n>>)

RECURSIVE VarsOf(_)
VarsOf(e) ==
  CASE e.k = "Variable" -> {e.Name}
    [] e.k = "Binary"   -> VarsOf(e.LHS) \cup VarsOf(e.RHS)
    [] e.k = "Call"     -> UNION {VarsOf(e.Args[i]) : i \in 1..Len(e.Args)}
    [] OTHER            -> {}

\* the callees of the calls of an expression, arguments first, left to right
RECURSIVE CallsOf(_), CallsOfArgs(_, _)
CallsOfArgs(Args, i) ==
  IF i > Len(Args) THEN <<>> ELSE CallsOf(Args[i]) \o CallsOfArgs(Args, i + 1)
CallsOf(e) ==
  CASE e.k = "Binary" -> CallsOf(e.LHS) \o CallsOf(e.RHS)
    [] e.k = "Call"   -> CallsOfArgs(e.Args, 1) \o <<e.Callee>>
    [] OTHER          -> <<>>

\* the callees of the call instructions of a block, in order
RECURSIVE CalleesIn(_)
CalleesIn(bb) ==
  IF bb = <<>> THEN <<>>
  ELSE (IF Head(bb).op = "call" THEN <<Head(bb).callee>> ELSE <<>>)
         \o CalleesIn(Tail(bb))

\* the leaves and operators of an expression tree, left to right
RECURSIVE Inorder(_)
Inorder(e) ==
  CASE e.k = "Binary"   -> Inorder(e.LHS) \o <<[tok |-> e.Op, text |-> <<>>]>>
                             \o Inorder(e.RHS)
    [] e.k = "Number"   -> <<[tok |-> tok_number, text |-> e.Val]>>
    [] e.k = "Variable" -> <<[tok |-> tok_identifier, text |-> e.Name]>>
    [] OTHER            -> <<[tok |-> "call", text |-> <<>>]>>

Prec(op) == BinopPrecedence(op)

\* every operator's right operand binds tighter than it, its left operand
\* at least as tight
RECURSIVE Shaped(_)
Shaped(e) ==
  e.k = "Binary" =>
    /\ e.RHS.k = "Binary" => Prec(e.RHS.Op) > Prec(e.Op)
    /\ e.LHS.k = "Binary" => Prec(e.LHS.Op) >= Prec(e.Op)
    /\ Shaped(e.LHS) /\ Shaped(e.RHS)

Operators4 == {"<", "+", "-", "*"}

\* tokens i..j of stdin are primary (op primary)*, followed by no operator
ChainAt(i, j) ==
  /\ i <= j /\ j <= Len(toks) /\ (j - i) % 2 = 0
  /\ \A k \in i..j :
       IF (k - i) % 2 = 0 THEN toks[k].tok \in {tok_number, tok_identifier}
       ELSE toks[k].tok \in Operators4
  /\ \A k \in i..j :
       toks[k].tok = tok_identifier /\ k < Len(toks) => toks[k + 1].tok # "("
  /\ j < Len(toks) => toks[j + 1].tok \notin Operators4

TokText(i, j) == [k \in 1..(j - i + 1) |->
                    [tok |-> toks[i + k - 1].tok, text |-> toks[i + k - 1].text]]

\* The statement that starts at token d, parsed as the first statement of
\* an input: main's getNextToken, then the parse MainLoop dispatches to.
Standalone(d) ==
  Let(getNextToken(Lex0(SubSeq(lex.stdin, toks[d].start, Len(lex.stdin)))),
      LAMBDA g :
        CASE g.CurTok = tok_def    -> ParseDefinition(g)
          [] g.CurTok = tok_extern -> ParseExtern(g)
          [] g.CurTok \in {";", tok_eof} -> [ast |-> NULL, g |-> g]
          [] OTHER                 -> ParseTopLevelExpr(g))

WellFormedAt(d) ==
  Let(Standalone(d), LAMBDA r : ~IsNull(r.ast) /\ r.g.CurTok = ";")

MissingParen(e) ==
  /\ ~e.parsed
  /\ e.perr # <<>>
  /\ e.perr[Len(e.perr)] \in {"expected ')'",
                              "Expected ')' or ',' in argument list",
                              "Expected ')' in prototype"}

----------------------------------------------------------------------------
(* The claims *)

\* C1: lowering a prototype named n with N parameters succeeds exactly when
\* no function named n is in the module or the existing n has no body and N
\* parameters; otherwise it fails with a redefinition error.  A function
\* that got a body keeps it, so that a later def of its name is rejected.
C1_Redefinition ==
  \A i \in Entries :
    LET e == log[i]
        P == ProtoOf(e)
        n == P.Name
    IN /\ IsDef(e) \/ IsExtern(e) =>
            /\ e.protoOk <=>
                 \/ n \notin DOMAIN e.pre.fns
                 \/ /\ e.pre.fns[n].empty
                    /\ e.pre.fns[n].nargs = Len(P.Args)
            /\ ~e.protoOk =>
                 /\ ~e.lowered
                 /\ e.lerr = IF ~e.pre.fns[n].empty
                               THEN <<"redefinition of function">>
                               ELSE <<"redefinition of function with different # args">>
       /\ IsDef(e) /\ e.lowered =>
            /\ n \in DOMAIN TheModule.fns
            /\ ~TheModule.fns[n].empty
            /\ TheModule.fns[n].nargs = Len(P.Args)

\* extern f(a); def f(a) a*a; def f(a) ...: declared, defined, rejected
C1_Witness ==
  \E i, j, k \in Entries :
    /\ i < j /\ j < k
    /\ IsExtern(log[i]) /\ log[i].lowered /\ log[i].ast.Name = <<"f">>
    /\ IsDef(log[j]) /\ log[j].lowered /\ log[j].ast.Proto.Name = <<"f">>
    /\ log[j].ast.Body = BinaryExprAST("*", V("a"), V("a"))
    /\ IsDef(log[k]) /\ ~log[k].protoOk /\ log[k].ast.Proto.Name = <<"f">>
    /\ log[k].lerr = <<"redefinition of function">>

\* C2: a definition whose body fails to lower returns failure and its
\* function is not in the module afterwards; every function of the module
\* that has a body is complete (its block ends with the ret) and is one a
\* definition lowered successfully.
C2_NoHalfBuilt ==
  /\ \A n \in DOMAIN TheModule.fns :
       ~TheModule.fns[n].empty =>
          /\ TheModule.fns[n].bb # <<>>
          /\ TheModule.fns[n].bb[Len(TheModule.fns[n].bb)].op = "ret"
          /\ \E i \in Entries :
               IsDef(log[i]) /\ log[i].lowered /\ log[i].ast.Proto.Name = n
  /\ \A i \in 1..Len(TheModule.anon) :
       /\ ~TheModule.anon[i].empty
       /\ TheModule.anon[i].bb # <<>>
       /\ TheModule.anon[i].bb[Len(TheModule.anon[i].bb)].op = "ret"
  /\ log # <<>> /\ IsFn(LastEntry) /\ LastEntry.protoOk /\ ~LastEntry.lowered =>
       /\ LastEntry.lerr # <<>>
       /\ LastEntry.ast.Proto.Name \notin DOMAIN TheModule.fns
       /\ Len(TheModule.anon) = Len(LastEntry.pre.anon)

C2_Witness ==
  /\ log # <<>> /\ IsDef(LastEntry) /\ LastEntry.protoOk /\ ~LastEntry.lowered
  /\ \E n \in DOMAIN TheModule.fns : ~TheModule.fns[n].empty

\* C3: a function lowers only if every variable of its body is one of its
\* own parameters, whatever earlier definitions and externs bound; a body
\* that is a variable which is no parameter fails with the unknown-variable
\* error.
C3_LocalsOnly ==
  \A i \in Entries :
    LET e == log[i]
    IN IsFn(e) =>
         /\ e.lowered => VarsOf(e.ast.Body) \subseteq Params(e.ast.Proto)
         /\ /\ e.protoOk
            /\ e.ast.Body.k = "Variable"
            /\ e.ast.Body.Name \notin Params(e.ast.Proto)
            => ~e.lowered /\ e.lerr = <<"Unknown variable name">>

\* def f(a) a; def g(b) a
C3_Witness ==
  \E i, j \in Entries :
    /\ i < j
    /\ IsDef(log[i]) /\ log[i].lowered
    /\ log[i].ast = FunctionAST(PrototypeAST(<<"f">>, <<<<"a">>>>), V("a"))
    /\ IsDef(log[j]) /\ ~log[j].lowered
    /\ log[j].ast = FunctionAST(PrototypeAST(<<"g">>, <<<<"b">>>>), V("a"))
    /\ log[j].lerr = <<"Unknown variable name">>

\* C4: a body that is a call fails with the unknown-function error when the
\* callee is not in the module, with the arity error when the callee's
\* arity is not the number of arguments (and then no argument is lowered);
\* otherwise the arguments are lowered left to right and, if they all
\* lower, the call is emitted after them, with one operand per argument.
C4_CallArity ==
  \A i \in Entries :
    LET e == log[i]
        c == e.ast.Body
    IN IsFn(e) /\ e.protoOk /\ c.k = "Call" =>
         IF c.Callee \notin DOMAIN e.mid.fns
           THEN ~e.lowered /\ e.lerr = <<"Unknown function referenced">>
         ELSE IF e.mid.fns[c.Callee].nargs # Len(c.Args)
           THEN ~e.lowered /\ e.lerr = <<"Incorrect # arguments passed">>
         ELSE IF e.lowered
           THEN LET bb == Emitted(e)
                IN /\ CalleesIn(bb) = CallsOf(c)
                   /\ Len(bb) >= 2
                   /\ bb[Len(bb) - 1].op = "call"
                   /\ bb[Len(bb) - 1].callee = c.Callee
                   /\ Len(bb[Len(bb) - 1].args) = Len(c.Args)
         ELSE e.lerr # <<>> /\ e.lerr # <<"Incorrect # arguments passed">>

\* extern f(a b); f(1); f(1,2)
C4_Witness ==
  \E i, j, k \in Entries :
    /\ i < j /\ j < k
    /\ IsExtern(log[i]) /\ log[i].lowered
    /\ log[i].ast = PrototypeAST(<<"f">>, <<<<"a">>, <<"b">>>>)
    /\ log[j].kind = "expr" /\ log[j].parsed /\ ~log[j].lowered
    /\ log[j].ast.Body = CallExprAST(<<"f">>, <<N("1")>>)
    /\ log[j].lerr = <<"Incorrect # arguments passed">>
    /\ log[k].kind = "expr" /\ log[k].lowered
    /\ log[k].ast.Body = CallExprAST(<<"f">>, <<N("1"), N("2")>>)

\* C5: a top-level expression primary (op primary)* parses to the tree over
\* exactly these tokens, in order, in which every operator's right operand
\* binds tighter than it and its left operand at least as tight; so for
\* 1+2*3, 1*2+3, 1<2+3 and 1-2-3.
C5_Precedence ==
  \A i \in Entries :
    LET e == log[i]
    IN e.kind = "expr" =>
         /\ \A j \in e.start..Len(toks) :
              ChainAt(e.start, j) =>
                /\ e.parsed
                /\ e.stopTok = j + 1
                /\ Inorder(e.ast.Body) = TokText(e.start, j)
                /\ Shaped(e.ast.Body)
         /\ e.parsed =>
              LET b == e.ast.Body
                  x == Inorder(b)
                  T(s) == [k \in 1..5 |->
                             IF k % 2 = 1 THEN [tok |-> tok_number, text |-> N(s[k]).Val]
                             ELSE [tok |-> s[k], text |-> <<>>]]
                  B(o, l, r) == BinaryExprAST(o, l, r)
              IN /\ x = T(<<"1", "+", "2", "*", "3">>)
                      => b = B("+", N("1"), B("*", N("2"), N("3")))
                 /\ x = T(<<"1", "*", "2", "+", "3">>)
                      => b = B("+", B("*", N("1"), N("2")), N("3"))
                 /\ x = T(<<"1", "<", "2", "+", "3">>)
                      => b = B("<", N("1"), B("+", N("2"), N("3")))
                 /\ x = T(<<"1", "-", "2", "-", "3">>)
                      => b = B("-", B("-", N("1"), N("2")), N("3"))

C5_Witness ==
  /\ pc = "done"
  /\ Len(log) = 1 /\ LastEntry.kind = "expr" /\ LastEntry.parsed
  /\ ChainAt(1, 5)
  /\ LastEntry.ast.Body =
       BinaryExprAST("-", BinaryExprAST("-", N("1"), N("2")), N("3"))

\* C6: after a statement that failed to parse for a missing ')', the
\* statement after its ';', if well formed and ended by ';', is dispatched
\* from its first token and parses to the tree it parses to as the first
\* statement of an input.
C6_Resync ==
  \A i \in Entries :
    LET e == log[i]
        t == StmtEnd(e.start)
        d == t + 1
    IN /\ MissingParen(e)
       /\ toks[t].tok = ";"
       /\ d <= Len(toks)
       /\ lex.ntok > d
       /\ WellFormedAt(d)
       => \E k \in Entries :
            /\ k > i
            /\ log[k].start = d
            /\ log[k].parsed
            /\ log[k].ast = Standalone(d).ast

\* ( 1 f ; ... : the failure is at f, which is skipped; the statement after
\* the ';' is parsed
C6_Witness ==
  /\ pc = "done"
  /\ \E i, k \in Entries :
       /\ i < k
       /\ MissingParen(log[i])
       /\ log[i].stopTok < StmtEnd(log[i].start)
       /\ log[k].start = StmtEnd(log[i].start) + 1
       /\ log[k].parsed /\ log[k].kind = "def"
       /\ WellFormedAt(log[k].start)

\* C7 as stated: no handler is ever dispatched on a token of a statement
\* that failed to parse (the rest of that statement, to its ';', is
\* discarded).
C7_Original == \A i \in Entries : ~log[i].inTail

\* C7 as amended: a handler whose parse fails discards exactly one token,
\* the one the parser stopped at; the token after it, unless it is ';' or
\* the end of input, is where the next handler is dispatched.
C7_SkipsOneToken ==
  \A i \in Entries :
    LET e == log[i]
    IN ~e.parsed =>
         /\ e.endTok = e.stopTok + 1
         /\ /\ i < Len(log)
            => log[i + 1].start >= e.endTok
         /\ /\ e.endTok <= Len(toks)
            /\ toks[e.endTok].tok # ";"
            /\ lex.ntok > e.endTok
            => i < Len(log) /\ log[i + 1].start = e.endTok

C7_Witness ==
  \E i \in Entries :
    /\ i < Len(log)
    /\ ~log[i].parsed
    /\ log[i + 1].start = log[i].stopTok + 1
    /\ log[i + 1].inTail /\ log[i + 1].lowered

\* C9 as stated: a definition that fails to lower leaves the declared
\* functions (names, arities, whether they have a body) as they were.
C9_Original ==
  log # <<>> /\ IsDef(LastEntry) /\ ~LastEntry.lowered =>
    Declared(TheModule) = Declared(LastEntry.pre)

\* extern f(a); def f(a) c; f(1): the failed definition erases the declared
\* f, and the call no longer resolves
C9_Witness ==
  \E i, j, k \in Entries :
    /\ i < j /\ j < k
    /\ IsExtern(log[i]) /\ log[i].lowered /\ log[i].ast.Name = <<"f">>
    /\ IsDef(log[j]) /\ log[j].protoOk /\ ~log[j].lowered
    /\ log[j].ast.Proto.Name = <<"f">>
    /\ <<"f">> \in DOMAIN log[j].pre.fns
    /\ log[k].kind = "expr" /\ log[k].parsed /\ ~log[k].lowered
    /\ log[k].ast.Body = CallExprAST(<<"f">>, <<N("1")>>)
    /\ log[k].lerr = <<"Unknown function referenced">>

\* C10: every turn of MainLoop reads at least one token or returns at the
\* end of input; gettok, once it returned tok_eof, returns nothing else;
\* main reaches its end.
C10_Progress ==
  /\ [][pc = "loop" => (lex'.ntok > lex.ntok \/
                        (pc' = "done" /\ lex.CurTok = tok_eof))]_vars
  /\ [](lex.eofOk)
  /\ <>(pc = "done")

C10_Witness ==
  /\ pc = "done"
  /\ lex.ntok >= Len(toks) + 2
  /\ \E i, j \in Entries : ~log[i].parsed /\ log[j].parsed /\ ~log[j].lowered

\* Position p of stream s lies in a comment of s, inside a token of s, or
\* at neither.
InComment(s, p) ==
  \E i \in 1..p : s[i] = "#" /\ \A j \in (i + 1)..p : s[j] \notin {"\n", "\r"}

InToken(s, p) == \E k \in 1..Len(Tokens(s)) :
                   Tokens(s)[k].start <= p /\ p < Tokens(s)[k].end

Boundary(s, p) == ~InComment(s, p) /\ ~InToken(s, p)

Terminated(c) == c[Len(c)] \in {"\n", "\r"}

TokenList(s) ==
  [k \in 1..(Len(Tokens(s)) + 1) |->
     IF k <= Len(Tokens(s))
       THEN [tok |-> Tokens(s)[k].tok, text |-> Tokens(s)[k].text]
       ELSE [tok |-> tok_eof, text |-> <<>>]]

\* C8: a '#' comment through the end of its line, inserted where no token
\* and no comment is split, or a '#' comment to the end of the input,
\* inserted at the end, leaves the tokens gettok returns unchanged; the
\* last of them is tok_eof.
C8_CommentTransparent ==
  /\ pc = "lexdone"
  /\ Boundary(base.s, base.p)
  /\ Terminated(base.c) \/ base.p = Len(base.s)
  => /\ out = TokenList(base.s)
     /\ out[Len(out)].tok = tok_eof

C8_Witness ==
  /\ pc = "lexdone"
  /\ base = ExampleBase
  /\ Boundary(base.s, base.p)
  /\ Len(out) = 6

====
